---- MODULE Spec2Model ----
(***************************************************************************)
(* Model of the VolTrayke application controller (src/application.cpp).    *)
(*                                                                         *)
(* The controller is a single-threaded Qt object: every handler runs to    *)
(* completion on the GUI thread, so each handler is one atomic action.     *)
(* Signals are delivered by direct connections, i.e. the connected slots   *)
(* run synchronously, once per connection, inside the emitting call.       *)
(*                                                                         *)
(* Handlers are written as operators from a state record to the SET of     *)
(* states the handler can end in; the set has more than one element where  *)
(* the C++ has undefined behaviour (null dereference, QList::at past the   *)
(* end) or where a collaborator outside this file decides the outcome.     *)
(* The record carries, besides the program's state, the list of the calls  *)
(* the handler has made on the menu, the tray icon, the dialog, the devices *)
(* and the settings, so that what a handler does, and in which order, can   *)
(* be stated about the handler's outcomes in every reachable state.         *)
(***************************************************************************)
EXTENDS Integers, Sequences, FiniteSets, TLC

VARIABLES
    pc,             \* "start" (before initUi), "running", "quit", "crashed", "undefined"
    engines,        \* every AudioEngine object created so far: <<[id, normalized, sinks]>>
    engine_,        \* Application::engine_  : 0 (nullptr) or an index into engines
    channel_,       \* Application::channel_ : NULL or a device <<engine, key>>
    engConn,        \* per engine object: connections sinkListChanged -> onAudioDeviceListChanged
    muteConn,       \* per device: connections muteChanged -> controller lambda
    volConn,        \* per device: connections volumeChanged -> controller lambda
    volume,         \* channel_->volume() of the device channel_ points to
    mute,           \* channel_->mute()   of the device channel_ points to
    menuVolume,     \* value shown by mnuVolume_
    menuMute,       \* mute state shown by mnuVolume_
    icon,           \* icon name of trayIcon_
    settings,       \* settings_ : [normalized, muteOnMiddleClick, useAutostart]
    autostartChecked, \* actAutoStart_->isChecked()
    autostartFile,  \* whether the autostart desktop file exists
    saved,          \* what settings_.save() last wrote: <<>> or <<settings record>>
    env             \* what the surroundings can produce: [volumes, mutes, engineIds, sinks]

vars == <<pc, engines, engine_, channel_, engConn, muteConn, volConn, volume, mute,
          menuVolume, menuMute, icon, settings, autostartChecked,
          autostartFile, saved, env>>

----------------------------------------------------------------------------
(* Bounds of the model *)

MaxEngines == 2     \* engine objects created in one run
MaxSinks == 2       \* device objects one engine can own
MaxConn == 3        \* connections the controller holds to one signal, over all devices

(* Build configuration and enum values *)

USE_ALSA == TRUE
USE_PULSEAUDIO == TRUE
Alsa == 0
PulseAudio == 1

NULL == <<>>           \* nullptr (of a device pointer)

Volumes == {0, 30, 70}
IconNames == {"audio-volume-muted", "audio-volume-low",
              "audio-volume-medium", "audio-volume-high"}
Reasons == {"Unknown", "Context", "DoubleClick", "Trigger", "MiddleClick"}

Unsupported == PulseAudio + 1      \* an engine id no case of the switch names
EngineIdInputs == {Alsa, PulseAudio, Unsupported}
DeviceIdInputs == (-1) .. MaxSinks

Devices == (1 .. MaxEngines) \X (1 .. MaxSinks)

\* the sink lists an engine can report: sequences of distinct devices it owns
SinkLists ==
    { q \in UNION { [1 .. n -> 1 .. MaxSinks] : n \in 0 .. MaxSinks } :
        \A i, j \in DOMAIN q : i # j => q[i] # q[j] }

\* The running program as a record.  Its field calls is the record of the
\* calls a handler makes on its collaborators, in order: a handler starts with
\* it empty, and it is what the handler did, not part of the program's state.
St == [pc |-> pc, engines |-> engines, engine_ |-> engine_, channel_ |-> channel_,
       engConn |-> engConn, muteConn |-> muteConn, volConn |-> volConn,
       volume |-> volume, mute |-> mute, menuVolume |-> menuVolume,
       menuMute |-> menuMute, icon |-> icon,
       settings |-> settings, autostartChecked |-> autostartChecked,
       autostartFile |-> autostartFile, saved |-> saved, calls |-> <<>>,
       env |-> env]

Becomes(s) ==
    /\ pc' = s.pc /\ engines' = s.engines /\ engine_' = s.engine_
    /\ channel_' = s.channel_ /\ engConn' = s.engConn /\ muteConn' = s.muteConn
    /\ volConn' = s.volConn /\ volume' = s.volume /\ mute' = s.mute
    /\ menuVolume' = s.menuVolume /\ menuMute' = s.menuMute /\ icon' = s.icon
    /\ settings' = s.settings
    /\ autostartChecked' = s.autostartChecked /\ autostartFile' = s.autostartFile
    /\ saved' = s.saved /\ env' = s.env

Log(s, e) == [s EXCEPT !.calls = Append(@, e)]

\* The two ways undefined behaviour ends: the process dies, or it goes on
\* with whatever the faulty operation produced.  From there on the source
\* no longer determines what the process does, and the model follows it no
\* further: both are final states.
Crash(s) == [s EXCEPT !.pc = "crashed"]

Survive(s) == [s EXCEPT !.pc = "undefined"]

Alive(s) == s.pc \notin {"crashed", "undefined"}

\* sequencing: run F on every outcome of S in which the process is still alive
Then(S, F(_)) == UNION { IF Alive(s) THEN F(s) ELSE {s} : s \in S }

Sinks(s) == s.engines[s.engine_].sinks

Description(d) == <<"sink", d[1], d[2]>>

----------------------------------------------------------------------------
(* Application::updateTrayIcon *)

IconName(v, m) ==
    IF v <= 0 \/ m THEN "audio-volume-muted"
    ELSE IF v <= 33 THEN "audio-volume-low"
    ELSE IF v <= 66 THEN "audio-volume-medium"
    ELSE "audio-volume-high"

\* channel_->volume() through a null channel_ is undefined behaviour: the
\* process dies, or goes on with whatever icon the garbage read selects
UpdateTrayIcon(s) ==
    LET s1 == Log(s, <<"updateTrayIcon", s.channel_>>)
    IN  IF s.channel_ = NULL
        THEN {Crash(s1)} \cup {[Survive(s1) EXCEPT !.icon = i] : i \in IconNames}
        ELSE {[s1 EXCEPT !.icon = IconName(s.volume, s.mute)]}

----------------------------------------------------------------------------
(* The lambdas connected to a channel in onAudioDeviceChanged *)

OnMuteChanged(s, muted) ==
    UpdateTrayIcon(Log([s EXCEPT !.menuMute = muted], <<"mnuVolume.setMute", muted>>))

OnVolumeChanged(s, v) ==
    UpdateTrayIcon(Log([s EXCEPT !.menuVolume = v], <<"mnuVolume.setVolume", v>>))

\* emission of a signal: every connection runs its slot once, in turn
RECURSIVE MuteSlots(_, _, _)
MuteSlots(S, n, muted) ==
    IF n = 0 THEN S
    ELSE MuteSlots(Then(S, LAMBDA s : OnMuteChanged(s, muted)), n - 1, muted)

RECURSIVE VolumeSlots(_, _, _)
VolumeSlots(S, n, v) ==
    IF n = 0 THEN S
    ELSE VolumeSlots(Then(S, LAMBDA s : OnVolumeChanged(s, v)), n - 1, v)

EmitMuteChanged(s, d, muted) == MuteSlots({s}, s.muteConn[d], muted)

EmitVolumeChanged(s, d, v) == VolumeSlots({s}, s.volConn[d], v)

----------------------------------------------------------------------------
(* AudioDevice: set volume, set mute, toggle mute.  The device takes the    *)
(* new value and emits its change event; a backend may emit inside the call *)
(* or later from its own callback (the later emission is the environment    *)
(* action DeviceVolumeChanged / DeviceMuteChanged below).                   *)

DeviceSetVolume(s, v) ==
    LET s1 == Log([s EXCEPT !.volume = v], <<"setVolume", s.channel_, v>>)
    IN  {s1} \cup EmitVolumeChanged(s1, s.channel_, v)

DeviceSetMute(s, muted) ==
    LET s1 == Log([s EXCEPT !.mute = muted], <<"setMute", s.channel_, muted>>)
    IN  {s1} \cup EmitMuteChanged(s1, s.channel_, muted)

DeviceToggleMute(s) ==
    LET s1 == Log([s EXCEPT !.mute = ~s.mute], <<"toggleMute", s.channel_>>)
    IN  {s1} \cup EmitMuteChanged(s1, s.channel_, ~s.mute)

----------------------------------------------------------------------------
(* The sigMuteToggled / sigVolumeChanged lambdas of the constructor *)

\* (a variant that leaves the tray icon as it is)
OnSigVolumeChanged_NoRefresh(s, v) ==
    IF s.channel_ = NULL THEN {s} ELSE DeviceSetVolume(s, v)

OnSigMuteToggled(s, muted) ==
    IF s.channel_ = NULL THEN {s}
    ELSE Then(DeviceSetMute(s, muted), UpdateTrayIcon)

OnSigVolumeChanged(s, v) ==
    IF s.channel_ = NULL THEN {s}
    ELSE Then(DeviceSetVolume(s, v), UpdateTrayIcon)

----------------------------------------------------------------------------
(* Application::onAudioDeviceListChanged *)

RECURSIVE Descriptions(_, _)
Descriptions(e, sinks) ==
    IF sinks = <<>> THEN <<>>
    ELSE <<Description(<<e, Head(sinks)>>)>> \o Descriptions(e, Tail(sinks))

OnAudioDeviceListChanged(s) ==
    IF s.engine_ # 0
    THEN {Log(s, <<"dlgPrefs.setDeviceList", Descriptions(s.engine_, Sinks(s))>>)}
    ELSE {s}

RECURSIVE ListSlots(_, _)
ListSlots(S, n) ==
    IF n = 0 THEN S ELSE ListSlots(Then(S, OnAudioDeviceListChanged), n - 1)

EmitSinkListChanged(s, e) == ListSlots({s}, s.engConn[e])

----------------------------------------------------------------------------
(* Application::onAudioEngineChanged *)

Supported(engineId) ==
    \/ USE_ALSA /\ engineId = Alsa
    \/ USE_PULSEAUDIO /\ engineId = PulseAudio

\* (a variant that never takes the early return)
SameEngine_Never(s, engineId) == FALSE

\* engine_->id() == engineId: the early return
SameEngine(s, engineId) == s.engines[s.engine_].id = engineId

\* (a variant that only clears the pointer)
DropChannel_KeepsConnections(s) ==
    [s EXCEPT !.channel_ = NULL, !.volume = 0, !.mute = FALSE]

\* disconnect(channel_, nullptr, this, nullptr); channel_ = nullptr;
DropChannel(s) ==
    IF s.channel_ # NULL
    THEN [s EXCEPT !.muteConn[s.channel_] = 0, !.volConn[s.channel_] = 0,
                   !.channel_ = NULL, !.volume = 0, !.mute = FALSE]
    ELSE s

\* disconnect(engine_, &AudioEngine::sinkListChanged, this, ...)
\* The engine object stays alive (its parent is the application) but is
\* never engine_ again, and the controller reads id() and sinks() of engine_
\* only: once an engine is replaced the model keeps the object and its
\* devices, and no longer what backend it is or what it lists.
Retired == [id |-> Unsupported, normalized |-> FALSE, sinks |-> <<>>]

\* (a variant that leaves the old engine connected)
DisconnectEngine_Forgotten(s) == [s EXCEPT !.engines[s.engine_] = Retired]

DisconnectEngine(s) ==
    [s EXCEPT !.engConn[s.engine_] = 0, !.engines[s.engine_] = Retired]

\* the sink lists a backend reports on this machine
Reported(e) == { q \in SinkLists : Len(q) <= e.sinks }

\* new AlsaEngine(this) / new PulseAudioEngine(this): a fresh engine object,
\* whose backend reports whatever sinks the machine has
NewEngine(s, engineId) ==
    { Log([s EXCEPT !.engines = Append(@, [id |-> engineId, normalized |-> FALSE,
                                             sinks |-> q]),
                    !.engine_ = Len(s.engines) + 1],
          <<"new", engineId>>) : q \in Reported(s.env) }

\* engine_->setNormalized(settings_.isNormalized())
SetNormalized(s) ==
    [s EXCEPT !.engines[s.engine_].normalized = s.settings.normalized]

\* connect(engine_, &AudioEngine::sinkListChanged, this, ...)
ConnectEngine(s) == [s EXCEPT !.engConn[s.engine_] = @ + 1]

OnAudioEngineChanged(s0, engineId) ==
    LET s == Log(s0, <<"onAudioEngineChanged", engineId>>)
    IN  IF s.engine_ # 0 /\ SameEngine(s, engineId)
        THEN {s}
        ELSE LET s1 == IF s.engine_ # 0 THEN DisconnectEngine(DropChannel(s)) ELSE s
             IN  IF Supported(engineId)
                 THEN { ConnectEngine(SetNormalized(s2)) : s2 \in NewEngine(s1, engineId) }
                 ELSE {[s1 EXCEPT !.engine_ = 0]}

----------------------------------------------------------------------------
(* Application::onAudioDeviceChanged *)

\* channel_ = d.  volume/mute follow the device channel_ points to: another
\* device has whatever volume and mute state the sound system gave it
Select(s, d) ==
    IF d = s.channel_ THEN {s}
    ELSE IF d = NULL THEN {[s EXCEPT !.channel_ = NULL, !.volume = 0, !.mute = FALSE]}
    ELSE { [s EXCEPT !.channel_ = d, !.volume = v, !.mute = m] :
             v \in s.env.volumes, m \in s.env.mutes }

\* the device objects that exist
Existing(s) == { d \in Devices : d[1] <= Len(s.engines) }

\* what a read past the end of the sink list can yield: a null pointer, or
\* what an earlier, longer list left there, a device of the same engine
Stale(s) == { d \in Devices : d[1] = s.engine_ } \cup {NULL}

\* channel_ = engine_->sinks().at(deviceId).  QList::at past the end is
\* undefined behaviour: the process dies (assertion, fault), or goes on with
\* the pointer the read yields
SinksAt(s, deviceId) ==
    LET s1 == Log(s, <<"sinks.at", deviceId, Len(Sinks(s))>>)
    IN  IF deviceId < Len(Sinks(s))
        THEN Select(s1, <<s.engine_, Sinks(s)[deviceId + 1]>>)
        ELSE {Crash(s1)} \cup UNION { Select(Survive(s1), d) : d \in Stale(s) }

\* the two connect() calls; QObject::connect refuses a null sender
ConnectChannel(s) ==
    IF s.channel_ = NULL THEN {s}
    ELSE {[s EXCEPT !.muteConn[s.channel_] = @ + 1, !.volConn[s.channel_] = @ + 1]}

\* deviceId < 0 => deviceId = 0
ClampDeviceId(deviceId) == IF deviceId < 0 THEN 0 ELSE deviceId

OnAudioDeviceChanged(s0, deviceId) ==
    LET s == Log(s0, <<"onAudioDeviceChanged", deviceId>>)
    IN  IF s.engine_ = 0 \/ Len(Sinks(s)) <= 0
        THEN {s}
        ELSE Then(SinksAt(s, ClampDeviceId(deviceId)), ConnectChannel)

----------------------------------------------------------------------------
(* Application::initUi, lines 151-166 *)

SetMenuVolume(s) ==
    IF s.channel_ # NULL
    THEN {Log([s EXCEPT !.menuVolume = s.volume], <<"mnuVolume.setVolume", s.volume>>)}
    ELSE {s}

SetAutostartChecked(s) == {[s EXCEPT !.autostartChecked = s.settings.useAutostart]}

Run(s) == {[s EXCEPT !.pc = "running"]}

InitUi(s0, engineId, channelId) ==
    LET s  == Log(s0, <<"initUi", engineId, channelId>>)
        a  == OnAudioEngineChanged(s, engineId)
        b  == Then(a, LAMBDA x : OnAudioDeviceChanged(x, channelId))
        c  == Then(b, OnAudioDeviceListChanged)
        d  == Then(c, UpdateTrayIcon)
        e  == Then(d, SetMenuVolume)
        f  == Then(e, SetAutostartChecked)
    IN  Then(f, Run)

----------------------------------------------------------------------------
(* The sigPrefsChanged lambda of the constructor, lines 74-85 *)

\* engine_->setNormalized() through a null engine_ is undefined behaviour
PrefsSetNormalized(s) ==
    IF s.engine_ = 0 THEN {Crash(s), Survive(s)} ELSE {SetNormalized(s)}

\* qobject_cast<AlsaEngine*>(engine_) && qobject_cast<AlsaDevice*>(channel_)
PrefsUpdateDevice(s) ==
    IF /\ s.engine_ # 0 /\ s.engines[s.engine_].id = Alsa
       /\ s.channel_ # NULL /\ s.engines[s.channel_[1]].id = Alsa
    THEN {Log(s, <<"alsa.updateDevice", s.channel_>>)}
    ELSE {s}

PrefsSteps(s) == {Log(Log(s, <<"mnuVolume.setPageStep">>), <<"mnuVolume.setSingleStep">>)}

OnSigPrefsChanged(s0) ==
    LET s == Log(s0, <<"sigPrefsChanged">>)
    IN  IF USE_ALSA
        THEN Then(Then(PrefsSetNormalized(s), PrefsUpdateDevice), PrefsSteps)
        ELSE PrefsSteps(s)

----------------------------------------------------------------------------
(* Application::onTrayIconActivated *)

\* (a variant that toggles on a middle click whatever the setting)
OnTrayIconActivated_IgnoresSetting(s0, reason) ==
    LET s == Log(s0, <<"onTrayIconActivated", reason>>)
    IN  IF reason = "Trigger" \/ reason = "DoubleClick"
        THEN {Log(Log(Log(s, <<"mnuVolume.show">>), <<"mnuVolume.adjustSize">>),
                  <<"mnuVolume.popUp">>)}
        ELSE IF s.channel_ # NULL /\ reason = "MiddleClick"
        THEN DeviceToggleMute(s)
        ELSE {s}

OnTrayIconActivated(s0, reason) ==
    LET s == Log(s0, <<"onTrayIconActivated", reason>>)
    IN  IF reason = "Trigger" \/ reason = "DoubleClick"
        THEN {Log(Log(Log(s, <<"mnuVolume.show">>), <<"mnuVolume.adjustSize">>),
                  <<"mnuVolume.popUp">>)}
        ELSE IF s.channel_ # NULL /\ s.settings.muteOnMiddleClick
                /\ reason = "MiddleClick"
        THEN DeviceToggleMute(s)
        ELSE {s}

----------------------------------------------------------------------------
(* Application::onAboutToQuit *)

SaveDialogSettings(s) == Log(s, <<"dlgPrefs.saveSettings">>)

SetUseAutostart(s) ==
    Log([s EXCEPT !.settings.useAutostart = s.autostartChecked],
        <<"settings.setUseAutostart", s.autostartChecked>>)

CreateAutostartFile(s) == Log([s EXCEPT !.autostartFile = TRUE], <<"createAutostartFile">>)

DeleteAutostartFile(s) == Log([s EXCEPT !.autostartFile = FALSE], <<"deleteAutostartFile">>)

SaveSettings(s) == Log([s EXCEPT !.saved = <<s.settings>>], <<"settings.save">>)

\* (a variant that writes the settings before it reads the action)
OnAboutToQuit_SavesFirst(s0) ==
    LET s  == Log(s0, <<"onAboutToQuit">>)
        s1 == SaveSettings(SaveDialogSettings(s))
        s2 == SetUseAutostart(s1)
        s3 == IF s2.settings.useAutostart THEN CreateAutostartFile(s2)
              ELSE DeleteAutostartFile(s2)
    IN  {[s3 EXCEPT !.pc = "quit"]}

OnAboutToQuit(s0) ==
    LET s  == Log(s0, <<"onAboutToQuit">>)
        s1 == SaveDialogSettings(s)
        s2 == SetUseAutostart(s1)
        s3 == IF s2.settings.useAutostart THEN CreateAutostartFile(s2)
              ELSE DeleteAutostartFile(s2)
    IN  {[SaveSettings(s3) EXCEPT !.pc = "quit"]}

----------------------------------------------------------------------------
(* The state machine *)

InitCommon ==
    /\ pc = "start"
    /\ engines = <<>>
    /\ engine_ = 0
    /\ channel_ = NULL
    /\ engConn = [e \in 1 .. MaxEngines |-> 0]
    /\ muteConn = [d \in Devices |-> 0]
    /\ volConn = [d \in Devices |-> 0]
    /\ volume = 0
    /\ mute = FALSE
    /\ menuVolume = 0
    /\ menuMute = FALSE
    /\ icon = "audio-volume-medium"
    /\ autostartChecked = FALSE
    /\ saved = <<>>

\* the audio wiring: both backends, any stored audio preferences, devices
\* that all sit at one volume, unmuted; the autostart preference, which only
\* initUi (line 166) and onAboutToQuit touch, is off
Init ==
    /\ InitCommon
    /\ env = [volumes |-> {30}, mutes |-> {FALSE}, engineIds |-> EngineIdInputs,
              sinks |-> MaxSinks]
    /\ settings \in [normalized : BOOLEAN, muteOnMiddleClick : {FALSE},
                     useAutostart : {FALSE}]
    /\ autostartFile = FALSE

\* volume and mute: one backend or none, at most one sink at a time, devices
\* at any volume, muted or not
InitVolume ==
    /\ InitCommon
    /\ env = [volumes |-> Volumes, mutes |-> BOOLEAN, engineIds |-> {Alsa, Unsupported},
              sinks |-> 1]
    /\ settings \in [normalized : {FALSE}, muteOnMiddleClick : BOOLEAN,
                     useAutostart : {FALSE}]
    /\ autostartFile = FALSE

\* preferences and shutdown: any stored preferences, any autostart file
InitPrefs ==
    /\ InitCommon
    /\ env = [volumes |-> {30}, mutes |-> {FALSE}, engineIds |-> {Alsa, Unsupported},
              sinks |-> 1]
    /\ settings \in [normalized : BOOLEAN, muteOnMiddleClick : BOOLEAN,
                     useAutostart : BOOLEAN]
    /\ autostartFile \in BOOLEAN

\* the bounds of the model, on the state a handler ends in
\* the number of connections in conn, over all devices
Total(conn) == Cardinality(UNION { {d} \X (1 .. conn[d]) : d \in Devices })

Bounded(s) ==
    /\ Len(s.engines) <= MaxEngines
    /\ Total(s.muteConn) <= MaxConn
    /\ Total(s.volConn) <= MaxConn

Step(S) == \E s \in S : Bounded(s) /\ Becomes(s)

\* Each event below is given as the set of outcomes of its handler in the
\* current state, and as the action that takes one of them.

\* the constructor: initUi with the stored engine and channel id
StartOutcomes ==
    UNION { InitUi(St, engineId, channelId) :
              engineId \in env.engineIds, channelId \in DeviceIdInputs }

Start == pc = "start" /\ Step(StartOutcomes)

\* dlgPrefs_ emits sigEngineChanged
SigEngineChangedOutcomes ==
    UNION { OnAudioEngineChanged(St, engineId) : engineId \in env.engineIds }

SigEngineChanged == pc = "running" /\ Step(SigEngineChangedOutcomes)

\* dlgPrefs_ emits sigChannelChanged
SigChannelChangedOutcomes ==
    UNION { OnAudioDeviceChanged(St, deviceId) : deviceId \in DeviceIdInputs }

SigChannelChanged == pc = "running" /\ Step(SigChannelChangedOutcomes)

\* dlgPrefs_ stores the edited preferences and emits sigPrefsChanged
SigPrefsChangedOutcomes ==
    UNION { OnSigPrefsChanged([St EXCEPT !.settings.normalized = n,
                                         !.settings.muteOnMiddleClick = m]) :
              n \in BOOLEAN, m \in BOOLEAN }

SigPrefsChanged == pc = "running" /\ Step(SigPrefsChangedOutcomes)

\* mnuVolume_ emits sigMuteToggled
SigMuteToggledOutcomes ==
    UNION { OnSigMuteToggled(Log(St, <<"sigMuteToggled", muted>>), muted) :
              muted \in env.mutes }

SigMuteToggled == pc = "running" /\ Step(SigMuteToggledOutcomes)

\* mnuVolume_ emits sigVolumeChanged
SigVolumeChangedOutcomes ==
    UNION { OnSigVolumeChanged(Log(St, <<"sigVolumeChanged", v>>), v) :
              v \in env.volumes }

SigVolumeChanged == pc = "running" /\ Step(SigVolumeChangedOutcomes)

\* trayIcon_ emits activated
TrayIconActivatedOutcomes ==
    UNION { OnTrayIconActivated(St, reason) : reason \in Reasons }

TrayIconActivated == pc = "running" /\ Step(TrayIconActivatedOutcomes)

\* the user toggles the checkable Autostart action
ToggleAutostartOutcomes ==
    {Log([St EXCEPT !.autostartChecked = ~autostartChecked], <<"actAutoStart.toggled">>)}

ToggleAutostart == pc = "running" /\ Step(ToggleAutostartOutcomes)

\* QApplication emits aboutToQuit
AboutToQuitOutcomes == OnAboutToQuit(St)

AboutToQuit == pc = "running" /\ Step(AboutToQuitOutcomes)

\* The sink list of engine object e becomes q and e emits sinkListChanged
\* (the list of an engine that is no longer engine_ is not tracked).
SinkListChangedBy(e, q) ==
    EmitSinkListChanged(
        Log([St EXCEPT !.engines[e].sinks = q], <<"sinkListChanged", e>>), e)

SinkListChangedOutcomes ==
    UNION { SinkListChangedBy(p[1], p[2]) :
              p \in { x \in (1 .. Len(engines)) \X Reported(env) :
                        IF x[1] = engine_ THEN x[2] # engines[x[1]].sinks
                        ELSE x[2] = <<>> } }

SinkListChanged == pc = "running" /\ Step(SinkListChangedOutcomes)

\* Device d has its volume changed from outside and emits volumeChanged.
\* Only the active channel and the devices the controller is connected to
\* are followed: no other device's event reaches the controller.
VolumeChangedBy(d, v) ==
    EmitVolumeChanged(
        Log([St EXCEPT !.volume = IF d = channel_ THEN v ELSE @],
            <<"volumeChanged", d, v>>), d, v)

Followed(conn) == { d \in Existing(St) : d = channel_ \/ conn[d] > 0 }

DeviceVolumeChangedOutcomes ==
    UNION { VolumeChangedBy(d, v) : d \in Followed(volConn), v \in env.volumes }

DeviceVolumeChanged == pc = "running" /\ Step(DeviceVolumeChangedOutcomes)

\* the same for the mute state and muteChanged
MuteChangedBy(d, muted) ==
    EmitMuteChanged(
        Log([St EXCEPT !.mute = IF d = channel_ THEN muted ELSE @],
            <<"muteChanged", d, muted>>), d, muted)

DeviceMuteChangedOutcomes ==
    UNION { MuteChangedBy(d, muted) : d \in Followed(muteConn), muted \in env.mutes }

DeviceMuteChanged == pc = "running" /\ Step(DeviceMuteChangedOutcomes)

\* the audio wiring: engine, channel, connections, menu and tray icon
Next ==
    \/ Start
    \/ SigEngineChanged
    \/ SigChannelChanged
    \/ SigMuteToggled
    \/ SigVolumeChanged
    \/ TrayIconActivated
    \/ SinkListChanged
    \/ DeviceVolumeChanged
    \/ DeviceMuteChanged

Spec == Init /\ [][Next]_vars

\* preferences and shutdown
NextPrefs ==
    \/ Start
    \/ SigEngineChanged
    \/ SigPrefsChanged
    \/ ToggleAutostart
    \/ AboutToQuit

SpecPrefs == InitPrefs /\ [][NextPrefs]_vars

\* volume and mute
SpecVolume == InitVolume /\ [][Next]_vars

\* what any handler can do next: the outcomes of every event of the program
Outcomes ==
    IF pc = "start" THEN StartOutcomes
    ELSE IF pc = "running"
    THEN SigEngineChangedOutcomes \cup SigChannelChangedOutcomes
         \cup SigPrefsChangedOutcomes \cup SigMuteToggledOutcomes
         \cup SigVolumeChangedOutcomes \cup TrayIconActivatedOutcomes
         \cup ToggleAutostartOutcomes \cup AboutToQuitOutcomes
         \cup SinkListChangedOutcomes \cup DeviceVolumeChangedOutcomes
         \cup DeviceMuteChangedOutcomes
    ELSE {}

\* the calls named op in a call record
CallsOf(s, op) == { i \in DOMAIN s.calls : s.calls[i][1] = op }

----------------------------------------------------------------------------
(* The claims *)

\* C1: in every reachable state an active channel implies an active engine
\* and is one of that engine's current sinks.
C1_ChannelIsSinkOfActiveEngine ==
    pc = "running" /\ channel_ # NULL =>
        /\ engine_ # 0
        /\ channel_[1] = engine_
        /\ \E i \in DOMAIN engines[engine_].sinks :
              engines[engine_].sinks[i] = channel_[2]

\* the control calls made on a device
ControlCalls(s) ==
    CallsOf(s, "setVolume") \cup CallsOf(s, "setMute") \cup CallsOf(s, "toggleMute")

\* the names of the calls in a call record, in order
Ops(s) == [i \in DOMAIN s.calls |-> s.calls[i][1]]

\* C2: a volume-changed (mute-toggled) event carrying v (m) calls setVolume(v)
\* (setMute(m)) on the active channel and then refreshes the tray icon; with
\* no active channel it makes no call at all; engine_ and channel_ are kept.
C2_MenuEventsReachChannel ==
    pc = "running" =>
        /\ \A v \in env.volumes : \A s \in OnSigVolumeChanged(St, v) :
             /\ s.engine_ = engine_ /\ s.channel_ = channel_
             /\ IF channel_ = NULL
                THEN s.calls = <<>> /\ s.icon = icon
                ELSE /\ ControlCalls(s) = {1}
                     /\ s.calls[1][1] = "setVolume"
                     /\ s.calls[1][2] = channel_ /\ s.calls[1][3] = v
                     /\ Len(s.calls) > 1
                     /\ s.calls[Len(s.calls)][1] = "updateTrayIcon"
                     /\ s.icon = IconName(v, mute)
        /\ \A m \in env.mutes : \A s \in OnSigMuteToggled(St, m) :
             /\ s.engine_ = engine_ /\ s.channel_ = channel_
             /\ IF channel_ = NULL
                THEN s.calls = <<>> /\ s.icon = icon
                ELSE /\ ControlCalls(s) = {1}
                     /\ s.calls[1][1] = "setMute"
                     /\ s.calls[1][2] = channel_ /\ s.calls[1][3] = m
                     /\ Len(s.calls) > 1
                     /\ s.calls[Len(s.calls)][1] = "updateTrayIcon"
                     /\ s.icon = IconName(volume, m)

\* a volume event has reached the channel: the device and the tray icon are
\* at 70 and the menu, which nobody told, is not
C2_Witness ==
    /\ pc = "running" /\ channel_ # NULL
    /\ volume = 70 /\ ~mute /\ icon = "audio-volume-high" /\ menuVolume # 70

\* C3: onAudioEngineChanged(id) with an id other than the active engine's
\* leaves no active channel, no connection to the previous channel or to the
\* previous engine, and as active engine a new engine of backend id, with the
\* stored 'normalized' setting and connected once; or no engine at all when
\* id names no supported backend.
C3_SwitchingBackend ==
    pc = "running" /\ engine_ # 0 =>
        \A id \in EngineIdInputs \ {engines[engine_].id} :
            \A s \in OnAudioEngineChanged(St, id) :
                Bounded(s) =>
                    /\ s.channel_ = NULL
                    /\ channel_ # NULL =>
                         s.muteConn[channel_] = 0 /\ s.volConn[channel_] = 0
                    /\ s.engConn[engine_] = 0
                    /\ IF id \in {Alsa, PulseAudio}
                       THEN /\ s.engine_ = Len(engines) + 1
                            /\ Len(s.engines) = Len(engines) + 1
                            /\ s.engines[s.engine_].id = id
                            /\ s.engines[s.engine_].normalized = settings.normalized
                            /\ s.engConn[s.engine_] = 1
                       ELSE s.engine_ = 0 /\ s.engines = [engines EXCEPT ![engine_] = Retired]

\* the backend has been switched: a second engine is active, normalized as
\* stored, connected; the first is not; there is no channel
C3_Witness ==
    /\ pc = "running" /\ Len(engines) = 2 /\ engine_ = 2 /\ channel_ = NULL
    /\ settings.normalized /\ engines[2].normalized
    /\ engConn[1] = 0 /\ engConn[2] = 1
    /\ \A d \in Devices : volConn[d] = 0 /\ muteConn[d] = 0

\* C4: sinkListChanged of the active engine makes exactly one update of the
\* dialog's device list, to the descriptions of the engine's sinks, in sink
\* order; sinkListChanged of an engine no longer active makes none.
C4_DeviceListFollowsActiveEngine ==
    pc = "running" =>
        \A e \in 1 .. Len(engines) : \A q \in SinkLists :
            \A s \in SinkListChangedBy(e, q) :
                LET U == CallsOf(s, "dlgPrefs.setDeviceList")
                IN  IF e = engine_
                    THEN /\ Cardinality(U) = 1
                         /\ \A i \in U :
                              /\ Len(s.calls[i][2]) = Len(q)
                              /\ \A k \in DOMAIN q :
                                   s.calls[i][2][k] = Description(<<e, q[k]>>)
                    ELSE U = {}

\* an engine has been replaced and the one that replaced it lists two sinks:
\* both can emit sinkListChanged here
C4_Witness ==
    /\ pc = "running" /\ Len(engines) = 2 /\ engine_ = 2
    /\ Len(engines[2].sinks) = 2
    /\ \E s \in SinkListChangedBy(2, <<2, 1>>) :
         \E i \in CallsOf(s, "dlgPrefs.setDeviceList") : Len(s.calls[i][2]) = 2
    /\ \A s \in SinkListChangedBy(1, <<>>) : Len(s.calls) = 1

\* C5: Trigger and DoubleClick show the volume popup and leave the mute
\* state alone; MiddleClick calls toggleMute on the active channel exactly
\* when there is one and muteOnMiddleClick is on; anything else does nothing.
C5_TrayIconActivation ==
    pc = "running" =>
        \A reason \in Reasons : \A s \in OnTrayIconActivated(St, reason) :
            IF reason \in {"Trigger", "DoubleClick"}
            THEN /\ \E i \in DOMAIN s.calls : s.calls[i][1] = "mnuVolume.popUp"
                 /\ ControlCalls(s) = {}
                 /\ s.mute = mute /\ s.menuMute = menuMute /\ s.icon = icon
            ELSE IF reason = "MiddleClick" /\ channel_ # NULL
                    /\ settings.muteOnMiddleClick
            THEN /\ ControlCalls(s) = {2}
                 /\ s.calls[2][1] = "toggleMute" /\ s.calls[2][2] = channel_
                 /\ s.mute = ~mute
            ELSE s = Log(St, <<"onTrayIconActivated", reason>>)

\* the channel is muted, menu and tray icon show it, and the setting that
\* lets a middle click toggle it is on
C5_Witness ==
    /\ pc = "running" /\ channel_ # NULL /\ settings.muteOnMiddleClick
    /\ mute /\ menuMute /\ icon = "audio-volume-muted" /\ volume = 70

\* C6: on aboutToQuit the dialog's settings are saved, then useAutostart is
\* set to the checked state of the Autostart action, then the autostart file
\* is created if it is true and deleted otherwise, then settings are saved;
\* after quit the saved useAutostart is the checked state and the file exists
\* exactly if it is checked.
C6_QuitPersistsAutostart ==
    /\ pc = "running" =>
         \A s \in OnAboutToQuit(St) :
             Ops(s) = <<"onAboutToQuit", "dlgPrefs.saveSettings",
                        "settings.setUseAutostart",
                        IF autostartChecked THEN "createAutostartFile"
                        ELSE "deleteAutostartFile",
                        "settings.save">>
    /\ pc = "quit" =>
         /\ Len(saved) = 1
         /\ saved[1].useAutostart = autostartChecked
         /\ autostartFile = autostartChecked

\* the program has quit with Autostart checked
C6_Witness ==
    /\ pc = "quit" /\ autostartChecked /\ autostartFile
    /\ Len(saved) = 1 /\ saved[1].useAutostart

\* C7: updateTrayIcon is only executed while channel_ is non-null, whatever
\* the event and whatever the stored engine and channel id at start-up.
C7_TrayIconOnlyWithChannel ==
    \A s \in Outcomes :
        \A i \in CallsOf(s, "updateTrayIcon") : s.calls[i][2] # NULL

\* C8: every index onAudioDeviceChanged passes to sinks().at() is within
\* [0, number of sinks).
C8_SinkIndexInRange ==
    \A s \in Outcomes :
        \A i \in CallsOf(s, "sinks.at") :
            0 <= s.calls[i][2] /\ s.calls[i][2] < s.calls[i][3]

\* C10: onAudioEngineChanged(id) with the id of the active engine changes
\* nothing: engine, channel and every connection stay, no engine is created.
C10_SameEngineIsNoOp ==
    pc = "running" /\ engine_ # 0 =>
        \A s \in OnAudioEngineChanged(St, engines[engine_].id) :
            s = Log(St, <<"onAudioEngineChanged", engines[engine_].id>>)

\* an engine is active, with a channel the controller is connected to
C10_Witness ==
    /\ pc = "running" /\ engine_ # 0 /\ channel_ # NULL
    /\ volConn[channel_] = 1 /\ muteConn[channel_] = 1 /\ engConn[engine_] = 1

\* C9: the controller is connected to muteChanged and volumeChanged of
\* exactly the active channel, exactly once each.
C9_ConnectedToActiveChannelOnce ==
    pc = "running" => \A d \in Devices :
        /\ muteConn[d] = (IF d = channel_ THEN 1 ELSE 0)
        /\ volConn[d] = (IF d = channel_ THEN 1 ELSE 0)

\* C11: onAudioDeviceChanged(deviceId) leaves the active channel and every
\* connection as they are when there is no active engine or the active engine
\* lists no sinks; otherwise the active channel becomes the engine's sink at
\* index deviceId, or at index 0 when deviceId is negative.
C11_DeviceChangeSelectsSink ==
    pc = "running" =>
        \A deviceId \in DeviceIdInputs : \A s \in OnAudioDeviceChanged(St, deviceId) :
            IF engine_ = 0 \/ Len(engines[engine_].sinks) = 0
            THEN /\ s.channel_ = channel_
                 /\ s.muteConn = muteConn /\ s.volConn = volConn
                 /\ s.engConn = engConn
            ELSE /\ Alive(s)
                 /\ ClampDeviceId(deviceId) < Len(engines[engine_].sinks)
                 /\ s.channel_ =
                      <<engine_, engines[engine_].sinks[ClampDeviceId(deviceId) + 1]>>

\* the volume menu shows the channel's volume and the tray icon is the one
\* for the channel's volume and mute state
ShowsChannel(s) ==
    /\ s.menuVolume = s.volume
    /\ s.icon = IconName(s.volume, s.mute)

\* C12: once onAudioDeviceChanged has made a channel active, at start-up or
\* from the preferences dialog, the volume menu and the tray icon show that
\* channel's volume and mute state when the handler is done, before any
\* further event and without a change event from the channel.
C12_DisplayFollowsNewChannel ==
    /\ pc = "start" =>
         \A s \in StartOutcomes :
             s.pc = "running" /\ s.channel_ # NULL => ShowsChannel(s)
    /\ pc = "running" =>
         \A s \in SigChannelChangedOutcomes :
             s.pc = "running" /\ s.channel_ # NULL /\ s.channel_ # channel_
                 => ShowsChannel(s)

\* The engine objects that are alive.  Each is created with the application
\* as its parent (new AlsaEngine(this)) and no handler deletes one, so every
\* engine object created so far is still alive.
LiveEngines == 1 .. Len(engines)

\* C13: at most one engine object is alive, whatever engine changes have been
\* made: the engine onAudioEngineChanged replaces is released.
C13_AtMostOneLiveEngine == Cardinality(LiveEngines) <= 1

====
